---------------------------- MODULE Spec2Model ----------------------------
(***************************************************************************)
(* A model of the dex-parser decoding core: the LEB128 readers the         *)
(* decoders call, the catch-handler decoders and the delta-id item array   *)
(* of encoded_item.rs, the LRU cache of cache.rs and the annotation        *)
(* decoders of annotation.rs.                                              *)
(*                                                                         *)
(* Machine words are scaled: the code's 64-bit words (nine 7-bit LEB128    *)
(* groups and one last bit) are modelled with LebGroups full groups and    *)
(* one last bit, so every overflow and truncation of the code happens at   *)
(* the same place of the encoding, on numbers TLC can hold.                *)
(***************************************************************************)
EXTENDS Integers, Sequences, FiniteSets, TLC

\* ---------------------------------------------------------------- bounds

\* Full 7-bit groups of a word-sized LEB128 value (9 in the code: 64 = 9*7+1).
LebGroups == 1

\* Longest byte buffer handed to the decoders of encoded_item.rs.
MaxLen == 5

\* Entries of the dex's type table (what get_type can resolve).
NumTypes == 2

\* Largest ordinary `len` handed to the item array.
MaxItems == 3

\* Entries of the dex's string table (what get_string can resolve).
NumStrings == 2

\* Most offsets in the table of an annotation set.
MaxTable == 3

\* Largest capacity a cache is built with.
MaxCap == 2

\* Keys the cache is asked for.
NumKeys == 3

\* Calls of get and put one behaviour makes.
MaxOps == 5

\* Entries of each vector of a directory.
MaxEntries == 1

\* Most elements of an annotation find_element is asked about.
MaxElements == 3

WordBits == 7 * LebGroups + 1

Pow2(n) == 2 ^ n

\* usize::MAX + 1, isize::MAX, i64::MIN and the width of `uint`, scaled.
WordMod == Pow2(WordBits)

IsizeMax == Pow2(WordBits - 1) - 1

MinInt == 0 - Pow2(WordBits - 1)

UintMod == Pow2(WordBits \div 2)

\* Bytes the catch-handler buffers are built from: 0, 1, 2, -1 as SLEB128
\* (0x7f) and a continuation byte with no payload (0x80).
CatchBytes == {0, 1, 2, 127, 128}

\* Bytes the delta-id buffers are built from.
DeltaBytes == {0, 3, 5, 128}

RECURSIVE SeqsUpTo(_, _)
SeqsUpTo(S, n) ==
    IF n = 0 THEN {<<>>}
    ELSE LET shorter == SeqsUpTo(S, n - 1)
         IN  shorter \cup {Append(s, b) : s \in {t \in shorter : Len(t) = n - 1}, b \in S}

VARIABLES
    source,       \* the byte slice handed to a decoder of encoded_item.rs
    handlerOut,   \* what EncodedCatchHandler::try_from_ctx ended with
    handlersOut,  \* what EncodedCatchHandlers::try_from_ctx ended with
    findOut,      \* what EncodedCatchHandlers::find ended with
    arrayOut,     \* what EncodedItemArray::try_from_ctx ended with
    cache,        \* the LruCache behind the shared handle: capacity and entries
    cacheOp,      \* the last call on the cache and what it returned
    tick,         \* calls made on the cache so far
    lastAccess,   \* per key, the call that last put it or hit it (0: never)
    dex,          \* the Dex: its byte buffer and its endianness
    layout,       \* where the structures of the buffer were laid out
    resolver,     \* the Dex's caches of resolved offsets, and the log of the last call
    out,          \* the last decode a caller asked of annotation.rs, and its Result
    aborted,      \* whether a decode of a set, list or directory of this Dex has failed
    elementOut    \* what EncodedAnnotation::find_element ended with

encodedVars == <<source, handlerOut, handlersOut, findOut, arrayOut>>

cacheVars == <<cache, cacheOp, tick, lastAccess>>

annotationVars == <<dex, layout, resolver, out, aborted, elementOut>>

vars == <<encodedVars, cacheVars, annotationVars>>

\* ---------------------------------------------------------------- results

\* How a call ends: Ok((value, consumed)), Err(error), or a panic that unwinds
\* out of the decoder.
Ok(v, n) == [status |-> "ok", value |-> v, consumed |-> n, error |-> "none"]

Err(e) == [status |-> "err", value |-> <<>>, consumed |-> 0, error |-> e]

\* An Error of kind `e` with its message.
ErrMsg(e, msg) == [status |-> "err", value |-> <<>>, consumed |-> 0, error |-> e,
                   msg |-> msg]

Panic(msg) == [status |-> "panic", value |-> <<>>, consumed |-> 0, error |-> msg]

NoResult == [status |-> "none", value |-> <<>>, consumed |-> 0, error |-> "none"]

\* No find_element was called on the annotation held.
NoElement == [called |-> FALSE, name |-> "", result |-> [some |-> FALSE, value |-> 0]]

\* No find was called on the list held.
NoFind == [called |-> FALSE, handler_offset |-> 0,
           result |-> [found |-> FALSE, handlers |-> <<>>]]

\* The `?` after a call: the call is made once; a call that did not end Ok
\* ends the caller the same way, and the caller goes on with the value of
\* one that did.
Try(r, F(_)) == CHOOSE ended \in {IF v.status # "ok" THEN v ELSE F(v) : v \in {r}} : TRUE

\* A decoder called with the resolver's state ends with its Result and the
\* state it leaves: the three caches and the log of the calls made.
Ended(res, rc) == [res |-> res, rc |-> rc]

\* A `let`: the value is computed once and the rest goes on with it.
With(v, F(_)) == CHOOSE ended \in {F(x) : x \in {v}} : TRUE

\* The `?` after a plain read, in a decoder that was handed the resolver's
\* state `rc`.
TryIn(r, rc, F(_)) ==
    CHOOSE ended \in {IF v.status # "ok" THEN Ended(v, rc) ELSE F(v) : v \in {r}} : TRUE

\* The same for a call that was handed the resolver's state.
TryWith(e, F(_)) ==
    CHOOSE ended \in {IF v.res.status # "ok" THEN v ELSE F(v) : v \in {e}} : TRUE

\* source[offset..]: the slice gread_with hands to the nested decoder.
Suffix(src, off) == SubSeq(src, off + 1, Len(src))

\* ---------------------------------------------------------------- varints

\* scroll's Uleb128: 7 payload bits per byte, low group first, the high bit
\* continues; at the last group only the bytes 0x00 and 0x01 are accepted.
RECURSIVE UlebLoop(_, _, _, _)
UlebLoop(src, count, shift, result) ==
    IF count >= Len(src) THEN Err("Scroll")
    ELSE LET byte == src[count + 1]
             next == result + (((byte % 128) * Pow2(shift)) % WordMod)
         IN  IF shift = 7 * LebGroups /\ byte # 0 /\ byte # 1 THEN Err("Scroll")
             ELSE IF byte < 128 THEN Ok(next, count + 1)
             ELSE UlebLoop(src, count + 1, shift + 7, next)

Uleb128Read(src) == UlebLoop(src, 0, 0, 0)

\* scroll's Sleb128: the same grouping; bit 6 of the last byte sign-extends
\* the value when the groups read do not fill the word; at the last group
\* only the bytes 0x00 and 0x7f are accepted.
RECURSIVE SlebLoop(_, _, _, _)
SlebLoop(src, count, shift, result) ==
    IF count >= Len(src) THEN Err("Scroll")
    ELSE LET byte == src[count + 1]
             next == result + (((byte % 128) * Pow2(shift)) % WordMod)
             after == shift + 7
             ext == IF after < WordBits /\ (byte \div 64) % 2 = 1
                    THEN next + (WordMod - Pow2(after))
                    ELSE next
         IN  IF shift = 7 * LebGroups /\ byte # 0 /\ byte # 127 THEN Err("Scroll")
             ELSE IF byte < 128
                  THEN Ok(IF ext >= Pow2(WordBits - 1) THEN ext - WordMod ELSE ext,
                          count + 1)
             ELSE SlebLoop(src, count + 1, after, next)

Sleb128Read(src) == SlebLoop(src, 0, 0, 0)

\* ---------------------------------------------------------------- context

\* Dex::get_type: the type of an index of the type table, InvalidId outside it.
GetType(type_id) ==
    IF type_id < NumTypes THEN Ok([type_id |-> type_id], 0) ELSE Err("InvalidId")

\* Vec::with_capacity(cap as usize): the cast wraps a negative cap, and a
\* request of more than isize::MAX bytes panics with "capacity overflow".
CapacityOverflow(cap) == (cap % WordMod) > IsizeMax


\* ---------------------------------------------------------------- cache.rs

Keys == 1..NumKeys

Values == {10, 20}

\* Option<V>.
None == [some |-> FALSE, value |-> 0]

Some(v) == [some |-> TRUE, value |-> v]

\* Positions of `key` among the entries (at most one).
Position(entries, key) == {i \in 1..Len(entries) : entries[i].key = key}

\* The entries without the one at position i.
Without(entries, i) == SubSeq(entries, 1, i - 1) \o SubSeq(entries, i + 1, Len(entries))

\* LruCache::get: a hit moves the entry to the most recently used end (the
\* head of `entries`) and returns its value.
LruGet(c, key) ==
    LET at == Position(c.entries, key)
    IN  IF at = {} THEN [cache |-> c, result |-> None]
        ELSE LET i == CHOOSE i \in at : TRUE
             IN  [cache |-> [c EXCEPT !.entries = <<c.entries[i]>> \o Without(c.entries, i)],
                  result |-> Some(c.entries[i].value)]

\* LruCache::peek: the value of the key, the order left as it is.
LruPeek(c, key) ==
    LET at == Position(c.entries, key)
    IN  IF at = {} THEN [cache |-> c, result |-> None]
        ELSE [cache |-> c, result |-> Some(c.entries[CHOOSE i \in at : TRUE].value)]

\* LruCache::put: a key held is updated and moved to the most recently used
\* end; a new key is added there, after the least recently used entry (the
\* last of `entries`) is dropped when the cache is full.
LruPut(c, key, value) ==
    LET at == Position(c.entries, key)
        entry == [key |-> key, value |-> value]
    IN  IF at # {}
        THEN [c EXCEPT !.entries = <<entry>> \o Without(c.entries, CHOOSE i \in at : TRUE)]
        ELSE IF Len(c.entries) = c.cap
        THEN [c EXCEPT !.entries = <<entry>> \o SubSeq(c.entries, 1, Len(c.entries) - 1)]
        ELSE [c EXCEPT !.entries = <<entry>> \o c.entries]

\* Cache::new(cap), cap: NonZero<usize>.
CacheNew(cap) == [cap |-> cap, entries |-> <<>>]

\* Cache::get written with LruCache::peek.
CacheGetPeek(c, key) == LruPeek(c, key)

\* Cache::get: a clone of the value at `key`, if found.
CacheGet(c, key) == LruGet(c, key)

\* Cache::put storing into a copy of the map, which no handle sees.
CachePutOnCopy(c, key, value) == c

\* Cache::put.
CachePut(c, key, value) == LruPut(c, key, value)

\* A handle's get(key).
Get ==
    /\ tick < MaxOps
    /\ \E key \in Keys :
         LET got == CacheGet(cache, key)
         IN  /\ cache' = got.cache
             /\ cacheOp' = [op |-> "get", key |-> key, result |-> got.result]
             /\ lastAccess' = IF got.result.some
                               THEN [lastAccess EXCEPT ![key] = tick + 1]
                               ELSE lastAccess
    /\ tick' = tick + 1
    /\ UNCHANGED <<encodedVars, annotationVars>>

\* A handle's put(key, value).
Put ==
    /\ tick < MaxOps
    /\ \E key \in Keys, value \in Values :
         /\ cache' = CachePut(cache, key, value)
         /\ cacheOp' = [op |-> "put", key |-> key, result |-> Some(value)]
         /\ lastAccess' = [lastAccess EXCEPT ![key] = tick + 1]
    /\ tick' = tick + 1
    /\ UNCHANGED <<encodedVars, annotationVars>>

NoOp == [op |-> "none", key |-> 0, result |-> None]

CacheIdle ==
    /\ cache = CacheNew(1)
    /\ cacheOp = NoOp
    /\ tick = 0
    /\ lastAccess = [k \in Keys |-> 0]

\* ---------------------------------------------------------------- encoded_item.rs

\* EncodedTypeAddrPair::try_from_ctx: two unsigned varints, the first cut to
\* the width of `uint`.
EncodedTypeAddrPair(src) ==
    Try(Uleb128Read(src), LAMBDA type_id :
    Try(Uleb128Read(Suffix(src, type_id.consumed)), LAMBDA addr :
        Ok([type_id |-> type_id.value % UintMod, addr |-> addr.value],
           type_id.consumed + addr.consumed)))

\* The loop of try_gread_vec_with!: n pairs read one after the other from
\* `offset`; the value of the result is the vector, `consumed` the new offset.
RECURSIVE GreadPairs(_, _, _, _)
GreadPairs(src, offset, n, vec) ==
    IF n <= 0 THEN Ok(vec, offset)
    ELSE Try(EncodedTypeAddrPair(Suffix(src, offset)), LAMBDA pair :
             GreadPairs(src, offset + pair.consumed, n - 1, Append(vec, pair.value)))

\* try_gread_vec_with!(source, offset, cap, ()): the vector is allocated for
\* `cap` elements before the first one is read.
TryGreadVecWith(src, offset, cap) ==
    IF CapacityOverflow(cap) THEN Panic("capacity overflow")
    ELSE GreadPairs(src, offset, cap, <<>>)

\* The map/collect of EncodedCatchHandler::try_from_ctx: each pair's type is
\* resolved in order and the first failure ends the collection.
RECURSIVE CollectHandlers(_, _)
CollectHandlers(pairs, handlers) ==
    IF pairs = <<>> THEN Ok(handlers, 0)
    ELSE Try(GetType(Head(pairs).type_id), LAMBDA ty :
             CollectHandlers(
                 Tail(pairs),
                 Append(handlers, [exception |-> [kind |-> "Ty", ty |-> ty.value],
                                   addr |-> Head(pairs).addr])))

\* The exception of the catch-all handler.
BaseException == [kind |-> "BaseException", ty |-> [type_id |-> 0 - 1]]

\* HasCatchAll with the comparison written `size < 0`.
HasCatchAllNegativeOnly(size) == size < 0

\* HasCatchAll with the comparison turned around.
HasCatchAllNonNegative(size) == size >= 0

\* `size <= 0`: whether the record ends with a catch-all address.
HasCatchAll(size) == size <= 0

\* i64::abs: the minimum has no positive counterpart; with overflow checks
\* the call panics, without them it returns the minimum itself.
AbsOverflows(size) == size = MinInt

Abs(size) == IF size < 0 /\ size # MinInt THEN 0 - size ELSE size

\* EncodedCatchHandler::try_from_ctx. `checks` is the build's overflow-checks
\* setting.
EncodedCatchHandler(src, checks) ==
    Try(Sleb128Read(src), LAMBDA size :
        IF AbsOverflows(size.value) /\ checks
        THEN Panic("attempt to negate with overflow")
        ELSE
    Try(TryGreadVecWith(src, size.consumed, Abs(size.value)), LAMBDA pairs :
    Try(CollectHandlers(pairs.value, <<>>), LAMBDA typed :
        IF HasCatchAll(size.value)
        THEN Try(Uleb128Read(Suffix(src, pairs.consumed)), LAMBDA all :
                 Ok(Append(typed.value, [exception |-> BaseException, addr |-> all.value]),
                    pairs.consumed + all.consumed))
        ELSE Ok(typed.value, pairs.consumed))))

\* GreadHandlers pushing each record with its position in the list.
RECURSIVE GreadHandlersByIndex(_, _, _, _, _)
GreadHandlersByIndex(src, offset, n, inner, checks) ==
    IF n <= 0 THEN Ok(inner, offset)
    ELSE LET off == Len(inner)
         IN  Try(EncodedCatchHandler(Suffix(src, offset), checks), LAMBDA handler :
                 GreadHandlersByIndex(src, offset + handler.consumed, n - 1,
                                      Append(inner, <<off, handler.value>>), checks))

\* The loop of EncodedCatchHandlers::try_from_ctx: each record is pushed with
\* the offset it was read from.
RECURSIVE GreadHandlers(_, _, _, _, _)
GreadHandlers(src, offset, n, inner, checks) ==
    IF n <= 0 THEN Ok(inner, offset)
    ELSE LET off == offset
         IN  Try(EncodedCatchHandler(Suffix(src, offset), checks), LAMBDA handler :
                 GreadHandlers(src, offset + handler.consumed, n - 1,
                               Append(inner, <<off, handler.value>>), checks))

\* EncodedCatchHandlers::try_from_ctx.
EncodedCatchHandlers(src, checks) ==
    Try(Uleb128Read(src), LAMBDA encoded_handler_size :
        IF CapacityOverflow(encoded_handler_size.value)
        THEN Panic("capacity overflow")
        ELSE GreadHandlers(src, encoded_handler_size.consumed,
                           encoded_handler_size.value, <<>>, checks))

\* EncodedCatchHandlers::find: the first pair stored with the offset.
Find(inner, handler_offset) ==
    LET hits == {i \in 1..Len(inner) : inner[i][1] = handler_offset}
    IN  IF hits = {} THEN [found |-> FALSE, handlers |-> <<>>]
        ELSE [found |-> TRUE,
              handlers |-> inner[CHOOSE i \in hits : \A j \in hits : i <= j][2]]

\* An item of the array: its decoder reads one unsigned varint, the
\* difference of its id to the id of the item before it.
DeltaItem(src, prev) ==
    Try(Uleb128Read(src), LAMBDA delta :
        Ok([id |-> prev + delta.value, prev |-> prev], delta.consumed))

\* EncodedItem::id.
Id(encoded_item) == encoded_item.id

\* GreadItems handing every item the initial `prev`.
RECURSIVE GreadItemsStalePrev(_, _, _, _, _)
GreadItemsStalePrev(src, offset, n, prev, inner) ==
    IF n <= 0 THEN Ok(inner, offset)
    ELSE Try(DeltaItem(Suffix(src, offset), prev), LAMBDA encoded_item :
             GreadItemsStalePrev(src, offset + encoded_item.consumed, n - 1,
                                 prev, Append(inner, encoded_item.value)))

\* The loop of EncodedItemArray::try_from_ctx.
RECURSIVE GreadItems(_, _, _, _, _)
GreadItems(src, offset, n, prev, inner) ==
    IF n <= 0 THEN Ok(inner, offset)
    ELSE Try(DeltaItem(Suffix(src, offset), prev), LAMBDA encoded_item :
             GreadItems(src, offset + encoded_item.consumed, n - 1,
                        Id(encoded_item.value), Append(inner, encoded_item.value)))

\* EncodedItemArray::try_from_ctx with ctx.len = len.
EncodedItemArray(src, len) ==
    IF CapacityOverflow(len) THEN Panic("capacity overflow")
    ELSE GreadItems(src, 0, len, 0, <<>>)

\* ---------------------------------------------------------------- annotation.rs

\* A fixed-width `uint` read with gread_with(offset, endian): four bytes.
ReadUint(src, endian) ==
    IF Len(src) < 4 THEN Err("Scroll")
    ELSE Ok(IF endian = "Little"
            THEN src[1] + 256 * src[2] + 65536 * src[3] + 16777216 * src[4]
            ELSE src[4] + 256 * src[3] + 65536 * src[2] + 16777216 * src[1],
            4)

\* A `ubyte` read with gread_with.
ReadUbyte(src) == IF Len(src) < 1 THEN Err("Scroll") ELSE Ok(src[1], 1)

\* Dex::get_string: the string of an index of the string table, InvalidId
\* outside it.
GetString(name_idx) ==
    IF name_idx < NumStrings THEN Ok([string_id |-> name_idx], 0) ELSE Err("InvalidId")

\* The decoder of an element's tagged value, an external hook: here a value
\* of one byte.
EncodedValue(src) == ReadUbyte(src)

\* AnnotationElement::try_from_ctx.
AnnotationElement(src) ==
    Try(Uleb128Read(src), LAMBDA name_idx :
    Try(GetString(name_idx.value % UintMod), LAMBDA name :
    Try(EncodedValue(Suffix(src, name_idx.consumed)), LAMBDA value :
        Ok([name |-> name.value, value |-> value.value],
           name_idx.consumed + value.consumed))))

\* The loop of try_gread_vec_with! over AnnotationElement.
RECURSIVE GreadElements(_, _, _, _)
GreadElements(src, offset, n, vec) ==
    IF n <= 0 THEN Ok(vec, offset)
    ELSE Try(AnnotationElement(Suffix(src, offset)), LAMBDA element :
             GreadElements(src, offset + element.consumed, n - 1,
                           Append(vec, element.value)))

\* EncodedAnnotation::try_from_ctx.
EncodedAnnotation(src) ==
    Try(Uleb128Read(src), LAMBDA type_idx :
    Try(GetType(type_idx.value % UintMod), LAMBDA jtype :
    Try(Uleb128Read(Suffix(src, type_idx.consumed)), LAMBDA size :
        IF CapacityOverflow(size.value) THEN Panic("capacity overflow")
        ELSE
    Try(GreadElements(src, type_idx.consumed + size.consumed, size.value, <<>>),
        LAMBDA elements :
        Ok([jtype |-> jtype.value, elements |-> elements.value],
           elements.consumed)))))

\* The text of a string of the string table.
StringOf(string_id) ==
    CASE string_id = 0 -> "a"
      [] string_id = 1 -> "name"
      [] OTHER -> "other"

\* DexString == &str: the texts are compared.
NameEquals(dex_string, name) == StringOf(dex_string.string_id) = name

\* find_element written with rfind: the scan starts at the last element.
RECURSIVE FindElementLast(_, _)
FindElementLast(elements, name) ==
    IF elements = <<>> THEN None
    ELSE IF NameEquals(elements[Len(elements)].name, name)
    THEN Some(elements[Len(elements)])
    ELSE FindElementLast(SubSeq(elements, 1, Len(elements) - 1), name)

\* EncodedAnnotation::find_element: elements().iter().find(|e| e.name() == name).
RECURSIVE FindElement(_, _)
FindElement(elements, name) ==
    IF elements = <<>> THEN None
    ELSE IF NameEquals(Head(elements).name, name) THEN Some(Head(elements))
    ELSE FindElement(Tail(elements), name)

\* VisibilityFromU8 giving every code without a variant the variant Build.
VisibilityFromU8Lenient(code) ==
    CASE code = 1 -> Some("Runtime")
      [] code = 2 -> Some("System")
      [] OTHER -> Some("Build")

\* Visibility, FromPrimitive::from_u8: the variant of a code, if it has one.
VisibilityFromU8(code) ==
    CASE code = 0 -> Some("Build")
      [] code = 1 -> Some("Runtime")
      [] code = 2 -> Some("System")
      [] OTHER -> None

\* ok_or_else(|| Error::InvalidId(..)) on the variant looked up.
OkOrInvalidVisibility(visibility) ==
    IF visibility.some THEN Ok(visibility.value, 0)
    ELSE ErrMsg("InvalidId", "Invalid visibility for annotation")

\* AnnotationItem::try_from_ctx.
AnnotationItem(src) ==
    Try(ReadUbyte(src), LAMBDA code :
    Try(OkOrInvalidVisibility(VisibilityFromU8(code.value)), LAMBDA visibility :
    Try(EncodedAnnotation(Suffix(src, code.consumed)), LAMBDA annotation :
        Ok([visibility |-> visibility.value, annotation |-> annotation.value],
           code.consumed + annotation.consumed))))

\* A call made with the log `rc.log` extended by one entry.
Logged(rc, what, kind, off) ==
    [rc EXCEPT !.log = Append(@, [what |-> what, kind |-> kind, off |-> off])]

\* The offset logged for a record decoded in place, which has none of its own.
InPlace == 0 - 1

\* Dex::get_annotation_item: the offset must lie in the buffer; a cached
\* value is returned, and on a miss the item is decoded from the buffer at
\* the offset and stored in the cache before it is returned.
GetAnnotationItem(d, rc, off) ==
    With(Logged(rc, "resolve", "AnnotationItem", off), LAMBDA asked :
        IF off >= Len(d.source) THEN Ended(Err("BadOffset"), asked)
        ELSE
    With(CacheGet(asked.items, off), LAMBDA got :
        IF got.result.some
        THEN Ended(Ok(got.result.value, 0), [asked EXCEPT !.items = got.cache])
        ELSE
    With(Logged([asked EXCEPT !.items = got.cache], "decode", "AnnotationItem", off),
         LAMBDA read :
    TryIn(AnnotationItem(Suffix(d.source, off)), read, LAMBDA item :
        Ended(Ok(item.value, 0),
              [read EXCEPT !.items = CachePut(@, off, item.value)])))))

\* The loop of try_gread_vec_with! over fixed-width uints.
RECURSIVE GreadUints(_, _, _, _, _)
GreadUints(src, offset, n, endian, vec) ==
    IF n <= 0 THEN Ok(vec, offset)
    ELSE Try(ReadUint(Suffix(src, offset), endian), LAMBDA word :
             GreadUints(src, offset + word.consumed, n - 1, endian,
                        Append(vec, word.value)))

\* try_gread_vec_with!(source, offset, size, endian) for a Vec<uint>.
TryGreadUints(src, offset, size, endian) ==
    IF CapacityOverflow(size) THEN Panic("capacity overflow")
    ELSE GreadUints(src, offset, size, endian, <<>>)

\* CollectItems leaving out the offsets that do not resolve.
RECURSIVE CollectItemsSkipFailed(_, _, _, _)
CollectItemsSkipFailed(d, rc, offs, annotations) ==
    IF offs = <<>> THEN Ended(Ok(annotations, 0), rc)
    ELSE With(GetAnnotationItem(d, rc, Head(offs)), LAMBDA item :
             CollectItemsSkipFailed(
                 d, item.rc, Tail(offs),
                 IF item.res.status # "ok" THEN annotations
                 ELSE Append(annotations, item.res.value)))

\* The map/collect of AnnotationSetItem::try_from_ctx: the offsets are
\* resolved in table order and the first failure ends the collection.
RECURSIVE CollectItems(_, _, _, _)
CollectItems(d, rc, offs, annotations) ==
    IF offs = <<>> THEN Ended(Ok(annotations, 0), rc)
    ELSE TryWith(GetAnnotationItem(d, rc, Head(offs)), LAMBDA item :
             CollectItems(d, item.rc, Tail(offs), Append(annotations, item.res.value)))

\* AnnotationSetItem::try_from_ctx.
AnnotationSetItem(src, d, rc) ==
    TryIn(ReadUint(src, d.endian), rc, LAMBDA size :
    TryIn(TryGreadUints(src, size.consumed, size.value, d.endian), rc,
          LAMBDA annotation_items_offs :
    TryWith(CollectItems(d, rc, annotation_items_offs.value, <<>>), LAMBDA items :
        Ended(Ok([annotations |-> items.res.value], annotation_items_offs.consumed),
              items.rc))))

\* AnnotationSetItem::default().
EmptySet == [annotations |-> <<>>]

\* Dex::get_annotation_set_item: the offset 0 stands for "no annotations"
\* and gives the empty set; any other offset must lie in the buffer and is
\* resolved through the cache like an item's.
GetAnnotationSetItem(d, rc, off) ==
    IF off = 0 THEN Ended(Ok(EmptySet, 0), rc)
    ELSE
    With(Logged(rc, "resolve", "AnnotationSetItem", off), LAMBDA asked :
        IF off >= Len(d.source) THEN Ended(Err("BadOffset"), asked)
        ELSE
    With(CacheGet(asked.sets, off), LAMBDA got :
        IF got.result.some
        THEN Ended(Ok(got.result.value, 0), [asked EXCEPT !.sets = got.cache])
        ELSE
    With(Logged([asked EXCEPT !.sets = got.cache], "decode", "AnnotationSetItem", off),
         LAMBDA read :
    TryWith(AnnotationSetItem(Suffix(d.source, off), d, read), LAMBDA set :
        Ended(Ok(set.res.value, 0),
              [set.rc EXCEPT !.sets = CachePut(@, off, set.res.value)])))))

\* The map/collect of AnnotationSetRefList::try_from_ctx.
RECURSIVE CollectSets(_, _, _, _)
CollectSets(d, rc, offs, list) ==
    IF offs = <<>> THEN Ended(Ok(list, 0), rc)
    ELSE TryWith(GetAnnotationSetItem(d, rc, Head(offs)), LAMBDA set :
             CollectSets(d, set.rc, Tail(offs), Append(list, set.res.value)))

\* AnnotationSetRefList::try_from_ctx.
AnnotationSetRefList(src, d, rc) ==
    TryIn(ReadUint(src, d.endian), rc, LAMBDA size :
    TryIn(TryGreadUints(src, size.consumed, size.value, d.endian), rc,
          LAMBDA annotation_ref_items :
    TryWith(CollectSets(d, rc, annotation_ref_items.value, <<>>), LAMBDA sets :
        Ended(Ok([annotation_set_list |-> sets.res.value],
                 annotation_ref_items.consumed),
              sets.rc))))

\* Dex::get_annotation_set_ref_list: resolved through the cache like an item.
GetAnnotationSetRefList(d, rc, off) ==
    With(Logged(rc, "resolve", "AnnotationSetRefList", off), LAMBDA asked :
        IF off >= Len(d.source) THEN Ended(Err("BadOffset"), asked)
        ELSE
    With(CacheGet(asked.lists, off), LAMBDA got :
        IF got.result.some
        THEN Ended(Ok(got.result.value, 0), [asked EXCEPT !.lists = got.cache])
        ELSE
    With(Logged([asked EXCEPT !.lists = got.cache], "decode", "AnnotationSetRefList", off),
         LAMBDA read :
    TryWith(AnnotationSetRefList(Suffix(d.source, off), d, read), LAMBDA list :
        Ended(Ok(list.res.value, 0),
              [list.rc EXCEPT !.lists = CachePut(@, off, list.res.value)])))))

\* FieldAnnotations::try_from_ctx.
FieldAnnotations(src, d, rc) ==
    With(Logged(rc, "decode", "FieldAnnotations", InPlace), LAMBDA called :
    TryIn(ReadUint(src, d.endian), called, LAMBDA field_idx :
    TryIn(ReadUint(Suffix(src, field_idx.consumed), d.endian), called,
          LAMBDA annotation_set_item_off :
    TryWith(GetAnnotationSetItem(d, called, annotation_set_item_off.value),
            LAMBDA annotations :
        Ended(Ok([field_idx |-> field_idx.value,
                  annotations |-> annotations.res.value],
                 field_idx.consumed + annotation_set_item_off.consumed),
              annotations.rc)))))

\* MethodAnnotations::try_from_ctx.
MethodAnnotations(src, d, rc) ==
    With(Logged(rc, "decode", "MethodAnnotations", InPlace), LAMBDA called :
    TryIn(ReadUint(src, d.endian), called, LAMBDA method_idx :
    TryIn(ReadUint(Suffix(src, method_idx.consumed), d.endian), called,
          LAMBDA annotation_set_item_off :
    TryWith(GetAnnotationSetItem(d, called, annotation_set_item_off.value),
            LAMBDA annotations :
        Ended(Ok([method_idx |-> method_idx.value,
                  annotations |-> annotations.res.value],
                 method_idx.consumed + annotation_set_item_off.consumed),
              annotations.rc)))))

\* ParameterAnnotations::try_from_ctx.
ParameterAnnotations(src, d, rc) ==
    With(Logged(rc, "decode", "ParameterAnnotations", InPlace), LAMBDA called :
    TryIn(ReadUint(src, d.endian), called, LAMBDA method_idx :
    TryIn(ReadUint(Suffix(src, method_idx.consumed), d.endian), called,
          LAMBDA annotation_set_ref_list_off :
    TryWith(GetAnnotationSetRefList(d, called, annotation_set_ref_list_off.value),
            LAMBDA annotations :
        Ended(Ok([method_idx |-> method_idx.value,
                  annotations |-> annotations.res.value],
                 method_idx.consumed + annotation_set_ref_list_off.consumed),
              annotations.rc)))))

\* One entry of a directory's vectors, by the vector it belongs to.
DirectoryEntry(kind, src, d, rc) ==
    CASE kind = "field" -> FieldAnnotations(src, d, rc)
      [] kind = "method" -> MethodAnnotations(src, d, rc)
      [] OTHER -> ParameterAnnotations(src, d, rc)

\* The loop of try_gread_vec_with! over the entries of one kind; the value
\* of the result is the vector, `consumed` the new offset.
RECURSIVE GreadEntries(_, _, _, _, _, _, _)
GreadEntries(kind, src, offset, n, d, rc, vec) ==
    IF n <= 0 THEN Ended(Ok(vec, offset), rc)
    ELSE TryWith(DirectoryEntry(kind, Suffix(src, offset), d, rc), LAMBDA entry :
             GreadEntries(kind, src, offset + entry.res.consumed, n - 1, d,
                          entry.rc, Append(vec, entry.res.value)))

\* try_gread_vec_with!(source, offset, size, ctx) for the entries of one kind.
TryGreadEntries(kind, src, offset, size, d, rc) ==
    IF CapacityOverflow(size) THEN Ended(Panic("capacity overflow"), rc)
    ELSE GreadEntries(kind, src, offset, size, d, rc, <<>>)

\* AnnotationsDirectoryItem with the methods' vector read before the fields'.
AnnotationsDirectoryItemMethodsFirst(src, d, rc) ==
    TryIn(ReadUint(src, d.endian), rc, LAMBDA class_annotations_off :
    TryIn(ReadUint(Suffix(src, 4), d.endian), rc, LAMBDA fields_size :
    TryIn(ReadUint(Suffix(src, 8), d.endian), rc, LAMBDA annotated_method_size :
    TryIn(ReadUint(Suffix(src, 12), d.endian), rc, LAMBDA annotated_parameters_size :
    TryWith(GetAnnotationSetItem(d, rc, class_annotations_off.value),
            LAMBDA class_annotations :
    TryWith(TryGreadEntries("method", src, 16, annotated_method_size.value, d,
                            class_annotations.rc),
            LAMBDA method_annotations :
    TryWith(TryGreadEntries("field", src, method_annotations.res.consumed,
                            fields_size.value, d, method_annotations.rc),
            LAMBDA field_annotations :
    TryWith(TryGreadEntries("parameter", src, field_annotations.res.consumed,
                            annotated_parameters_size.value, d,
                            field_annotations.rc),
            LAMBDA parameter_annotations :
        Ended(Ok([class_annotations |-> class_annotations.res.value,
                  field_annotations |-> field_annotations.res.value,
                  method_annotations |-> method_annotations.res.value,
                  parameter_annotations |-> parameter_annotations.res.value],
                 parameter_annotations.res.consumed),
              parameter_annotations.rc)))))))))

\* AnnotationsDirectoryItem::try_from_ctx.
AnnotationsDirectoryItem(src, d, rc) ==
    TryIn(ReadUint(src, d.endian), rc, LAMBDA class_annotations_off :
    TryIn(ReadUint(Suffix(src, 4), d.endian), rc, LAMBDA fields_size :
    TryIn(ReadUint(Suffix(src, 8), d.endian), rc, LAMBDA annotated_method_size :
    TryIn(ReadUint(Suffix(src, 12), d.endian), rc, LAMBDA annotated_parameters_size :
    TryWith(GetAnnotationSetItem(d, rc, class_annotations_off.value),
            LAMBDA class_annotations :
    TryWith(TryGreadEntries("field", src, 16, fields_size.value, d,
                            class_annotations.rc),
            LAMBDA field_annotations :
    TryWith(TryGreadEntries("method", src, field_annotations.res.consumed,
                            annotated_method_size.value, d, field_annotations.rc),
            LAMBDA method_annotations :
    TryWith(TryGreadEntries("parameter", src, method_annotations.res.consumed,
                            annotated_parameters_size.value, d,
                            method_annotations.rc),
            LAMBDA parameter_annotations :
        Ended(Ok([class_annotations |-> class_annotations.res.value,
                  field_annotations |-> field_annotations.res.value,
                  method_annotations |-> method_annotations.res.value,
                  parameter_annotations |-> parameter_annotations.res.value],
                 parameter_annotations.res.consumed),
              parameter_annotations.rc)))))))))

\* ---------------------------------------------------------------- actions

\* Names find_element is asked for: the texts of the table and one it lacks.
Names == {"a", "name", "other", "absent"}

\* The caches of a Dex built with capacity `cap`, and an empty log.
NewResolver(cap) ==
    [items |-> CacheNew(cap), sets |-> CacheNew(cap), lists |-> CacheNew(cap),
     log |-> <<>>]

NoCall == [op |-> "none", off |-> 0, res |-> NoResult]

AnnotationIdle ==
    /\ dex = [source |-> <<>>, endian |-> "Little"]
    /\ layout = [table |-> <<>>]
    /\ resolver = NewResolver(1)
    /\ out = NoCall
    /\ aborted = FALSE
    /\ elementOut = NoElement

\* The calls that decode a record holding a table of offsets.
Enclosing == {"set", "directory", "resolve_set"}

\* A call of annotation.rs and what it ended with; its log started empty.
Called(op, off, ended) ==
    /\ out' = [op |-> op, off |-> off, res |-> ended.res]
    /\ resolver' = ended.rc
    /\ aborted' = (aborted \/ (op \in Enclosing /\ ended.res.status # "ok"))

Fresh == [resolver EXCEPT !.log = <<>>]

\* A caller decodes one AnnotationItem from the slice.
DecodeAnnotationItem ==
    /\ out' = [op |-> "annotation_item", off |-> 0, res |-> AnnotationItem(source)]
    /\ UNCHANGED <<dex, layout, resolver, aborted, elementOut, encodedVars, cacheVars>>

\* A caller decodes one EncodedAnnotation from the slice.
DecodeAnnotation ==
    /\ out' = [op |-> "encoded_annotation", off |-> 0, res |-> EncodedAnnotation(source)]
    /\ elementOut' = NoElement
    /\ UNCHANGED <<dex, layout, resolver, aborted, encodedVars, cacheVars>>

\* A caller asks the annotation it decoded for the element of a name.
CallFindElement ==
    /\ out.op = "encoded_annotation"
    /\ out.res.status = "ok"
    /\ \E name \in Names :
         elementOut' = [called |-> TRUE, name |-> name,
                        result |-> FindElement(out.res.value.elements, name)]
    /\ UNCHANGED <<dex, layout, resolver, out, aborted, encodedVars, cacheVars>>

\* A caller decodes the AnnotationSetItem of the buffer.
DecodeSet ==
    /\ Called("set", layout.setOff,
              AnnotationSetItem(Suffix(dex.source, layout.setOff), dex, Fresh))
    /\ UNCHANGED <<dex, layout, elementOut, encodedVars, cacheVars>>

\* A caller resolves one annotation item by its offset.
ResolveItem ==
    /\ \E off \in {layout.itemOff[1], layout.itemOff[2], layout.badOff} :
         Called("item", off, GetAnnotationItem(dex, Fresh, off))
    /\ UNCHANGED <<dex, layout, elementOut, encodedVars, cacheVars>>

\* A caller decodes the AnnotationsDirectoryItem of the buffer.
DecodeDirectory ==
    /\ Called("directory", layout.dirOff,
              AnnotationsDirectoryItem(Suffix(dex.source, layout.dirOff), dex, Fresh))
    /\ UNCHANGED <<dex, layout, elementOut, encodedVars, cacheVars>>

\* A caller resolves one annotation set by its offset.
ResolveSet ==
    /\ \E off \in {0, layout.setOff, layout.badOff} :
         Called("resolve_set", off, GetAnnotationSetItem(dex, Fresh, off))
    /\ UNCHANGED <<dex, layout, elementOut, encodedVars, cacheVars>>

\* A caller decodes one EncodedCatchHandler from the slice.
DecodeCatchHandler ==
    /\ \E checks \in BOOLEAN : handlerOut' = EncodedCatchHandler(source, checks)
    /\ UNCHANGED <<source, handlersOut, findOut, arrayOut, cacheVars, annotationVars>>

\* A caller decodes the EncodedCatchHandlers list from the slice.
DecodeCatchHandlers ==
    /\ \E checks \in BOOLEAN : handlersOut' = EncodedCatchHandlers(source, checks)
    /\ findOut' = NoFind
    /\ UNCHANGED <<source, handlerOut, arrayOut, cacheVars, annotationVars>>

\* A caller looks a handler offset up in the decoded list.
FindHandler ==
    /\ handlersOut.status = "ok"
    /\ \E handler_offset \in 0..(MaxLen + 1) :
         findOut' = [called |-> TRUE, handler_offset |-> handler_offset,
                     result |-> Find(handlersOut.value, handler_offset)]
    /\ UNCHANGED <<source, handlerOut, handlersOut, arrayOut, cacheVars, annotationVars>>

\* A caller decodes an item array of `len` items from the slice.
DecodeItemArray ==
    /\ \E len \in (0..MaxItems) \cup {IsizeMax + 1, WordMod - 1} :
         arrayOut' = [len |-> len, out |-> EncodedItemArray(source, len)]
    /\ UNCHANGED <<source, handlerOut, handlersOut, findOut, cacheVars, annotationVars>>

InitOut ==
    /\ handlerOut = NoResult
    /\ handlersOut = NoResult
    /\ findOut = NoFind
    /\ arrayOut = [len |-> 0, out |-> NoResult]

EncodedIdle ==
    /\ source = <<>>
    /\ InitOut

InitCatch ==
    /\ source \in SeqsUpTo(CatchBytes, MaxLen)
    /\ InitOut
    /\ CacheIdle
    /\ AnnotationIdle

NextCatch == DecodeCatchHandler \/ DecodeCatchHandlers \/ FindHandler

SpecCatch == InitCatch /\ [][NextCatch]_vars

InitArray ==
    /\ source \in SeqsUpTo(DeltaBytes, MaxLen)
    /\ InitOut
    /\ CacheIdle
    /\ AnnotationIdle

NextArray == DecodeItemArray

SpecArray == InitArray /\ [][NextArray]_vars

\* Bytes an AnnotationItem's slice continues with after its visibility.
ItemBytes == {0, 1, 5, 128}

InitItem ==
    /\ source \in {<<>>} \cup {<<code>> \o rest :
                                 code \in 0..255, rest \in SeqsUpTo(ItemBytes, MaxLen - 2)}
    /\ InitOut
    /\ CacheIdle
    /\ AnnotationIdle

NextItem == DecodeAnnotationItem

SpecItem == InitItem /\ [][NextItem]_vars

\* A fixed-width uint as the buffer holds it.
PutUint(v, endian) == IF endian = "Little" THEN <<v, 0, 0, 0>> ELSE <<0, 0, 0, v>>

RECURSIVE PutUints(_, _)
PutUints(vs, endian) ==
    IF vs = <<>> THEN <<>> ELSE PutUint(Head(vs), endian) \o PutUints(Tail(vs), endian)

\* The first bytes of a dex file.
Magic == <<100, 101, 120, 10>>

\* Annotation items a buffer is built from: a Build annotation of type 0
\* with no elements, a Runtime annotation of type 1 with one element, and
\* an item whose visibility code is 3.
ItemImages == {<<0, 0, 0>>, <<1, 1, 1, 0, 7>>, <<3, 0, 0>>}

\* The second of them.
ValidItem == <<1, 1, 1, 0, 7>>

\* An offset past the end of every buffer: the largest a byte of it holds.
BadOff == Pow2(8) - 1

Endians == {"Little", "Big"}

\* The buffer of a set: the magic, the set's table of n offsets, two items.
SetLayout(n, item1) ==
    [setOff |-> 4, itemOff |-> <<8 + 4 * n, 8 + 4 * n + Len(item1)>>, badOff |-> BadOff]

InitSet ==
    /\ \E endian \in Endians, cap \in 1..MaxCap, n \in 0..MaxTable,
          item1 \in ItemImages, item2 \in ItemImages :
         LET at == SetLayout(n, item1)
         IN  \E table \in [1..n -> {at.itemOff[1], at.itemOff[2], at.badOff}] :
                /\ dex = [source |-> Magic \o PutUints(<<n>> \o table, endian)
                                     \o item1 \o item2,
                          endian |-> endian]
                /\ layout = at @@ [table |-> table]
                /\ resolver = NewResolver(cap)
    /\ out = NoCall
    /\ aborted = FALSE
    /\ elementOut = NoElement
    /\ EncodedIdle
    /\ CacheIdle

NextSet == DecodeSet \/ ResolveItem

SpecSet == InitSet /\ [][NextSet]_vars

\* The entries of one of a directory's vectors: n pairs of an index and the
\* offset `off`.
RECURSIVE EntryWords(_, _)
EntryWords(n, off) == IF n = 0 THEN <<>> ELSE EntryWords(n - 1, off) \o <<n - 1, off>>

\* The buffer of a directory: the magic, the directory with its f, m and p
\* entries, a set of two offsets, a list of that set and of no set, two items.
DirLayout(f, m, p, item1) ==
    LET setOff == 20 + 8 * (f + m + p)
    IN  [dirOff |-> 4, setOff |-> setOff, listOff |-> setOff + 12,
         itemOff |-> <<setOff + 24, setOff + 24 + Len(item1)>>, badOff |-> BadOff,
         sizes |-> <<f, m, p>>]

InitDir ==
    /\ \E endian \in Endians, cap \in 1..MaxCap, f \in 0..MaxEntries,
          m \in 0..MaxEntries, p \in 0..MaxEntries, item1 \in ItemImages :
         LET at == DirLayout(f, m, p, item1)
         IN  \E class_annotations_off \in {0, at.setOff, at.badOff},
                table \in [1..2 -> {at.itemOff[1], at.badOff}] :
                /\ dex = [source |->
                             Magic
                             \o PutUints(<<class_annotations_off, f, m, p>>
                                         \o EntryWords(f, at.setOff)
                                         \o EntryWords(m, at.setOff)
                                         \o EntryWords(p, at.listOff)
                                         \o <<2>> \o table
                                         \o <<2, at.setOff, 0>>, endian)
                             \o item1 \o ValidItem,
                          endian |-> endian]
                /\ layout = at @@ [table |-> table, classOff |-> class_annotations_off]
                /\ resolver = NewResolver(cap)
    /\ out = NoCall
    /\ aborted = FALSE
    /\ elementOut = NoElement
    /\ EncodedIdle
    /\ CacheIdle

NextDir == DecodeDirectory \/ DecodeSet \/ ResolveSet \/ ResolveItem

SpecDir == InitDir /\ [][NextDir]_vars

\* Values the elements of an annotation are built with.
ElementValues == {1, 2, 3}

\* The bytes of n elements, each a name index and a value, in every way.
RECURSIVE ElementImages(_)
ElementImages(n) ==
    IF n = 0 THEN {<<>>}
    ELSE {image \o <<name_idx, value>> :
            image \in ElementImages(n - 1), name_idx \in 0..(NumStrings - 1),
            value \in ElementValues}

\* The slice of an annotation: its type, its size and its elements.
InitFind ==
    /\ \E n \in 0..MaxElements :
         source \in {<<0, n>> \o image : image \in ElementImages(n)}
    /\ InitOut
    /\ CacheIdle
    /\ AnnotationIdle

NextFind == DecodeAnnotation \/ CallFindElement

SpecFind == InitFind /\ [][NextFind]_vars

InitCache ==
    /\ \E cap \in 1..MaxCap : cache = CacheNew(cap)
    /\ cacheOp = NoOp
    /\ tick = 0
    /\ lastAccess = [k \in Keys |-> 0]
    /\ EncodedIdle
    /\ AnnotationIdle

NextCache == Get \/ Put

SpecCache == InitCache /\ [][NextCache]_vars

\* ---------------------------------------------------------------- properties of encoded_item.rs

\* The unsigned varints a slice starts with, one after the other, each with
\* the bytes it takes: what the stream holds, whoever reads it.
RECURSIVE UlebStream(_)
UlebStream(src) ==
    LET v == Uleb128Read(src)
    IN  IF v.status # "ok" THEN <<>>
        ELSE <<[value |-> v.value, consumed |-> v.consumed]>>
             \o UlebStream(Suffix(src, v.consumed))

RECURSIVE SumConsumed(_, _)
SumConsumed(stream, n) ==
    IF n = 0 THEN 0 ELSE stream[n].consumed + SumConsumed(stream, n - 1)

\* The header of the record in `source` and the varints that follow it.
Header == Sleb128Read(source)

Body == UlebStream(Suffix(source, Header.consumed))

\* Handler i is the typed handler of the i-th (type, address) pair of the stream.
TypedFromStream(handlers, i) ==
    /\ handlers[i].exception.kind = "Ty"
    /\ handlers[i].exception.ty.type_id = Body[2 * i - 1].value % UintMod
    /\ handlers[i].addr = Body[2 * i].value

\* The stream holds `n` pairs whose types all resolve, and `extra` more varints.
StreamResolves(n, extra) ==
    /\ Len(Body) >= 2 * n + extra
    /\ \A i \in 1..n : Body[2 * i - 1].value % UintMod < NumTypes

\* C1: a record whose header h is <= 0 decodes to abs(h) typed handlers in
\* stream order followed by exactly one catch-all handler, which carries the
\* address read after the pairs; and it does decode when the stream holds
\* the pairs, with types that resolve, and the address.
C1_NonPositiveHeader ==
    (handlerOut.status # "none" /\ Header.status = "ok" /\ Header.value <= 0) =>
        LET n == 0 - Header.value
            handlers == handlerOut.value
        IN  /\ handlerOut.status = "ok" =>
                /\ Len(handlers) = n + 1
                /\ \A i \in 1..n : TypedFromStream(handlers, i)
                /\ handlers[n + 1].exception = BaseException
                /\ handlers[n + 1].addr = Body[2 * n + 1].value
                /\ {i \in 1..Len(handlers) : handlers[i].exception.kind # "Ty"} = {n + 1}
                /\ handlerOut.consumed = Header.consumed + SumConsumed(Body, 2 * n + 1)
            /\ (Header.value # MinInt /\ StreamResolves(n, 1)) => handlerOut.status = "ok"

\* C1's case: a header of -1 decoded to one typed handler and the catch-all.
C1_Witness ==
    /\ handlerOut.status = "ok"
    /\ Header.value = 0 - 1
    /\ Len(handlerOut.value) = 2
    /\ handlerOut.value[2].exception = BaseException

\* C2: a record whose header h is > 0 decodes to exactly h typed handlers in
\* stream order and no catch-all handler, and consumes the header and the h
\* pairs only.
C2_PositiveHeader ==
    (handlerOut.status # "none" /\ Header.status = "ok" /\ Header.value > 0) =>
        LET n == Header.value
            handlers == handlerOut.value
        IN  /\ handlerOut.status = "ok" =>
                /\ Len(handlers) = n
                /\ \A i \in 1..n : TypedFromStream(handlers, i)
                /\ handlerOut.consumed = Header.consumed + SumConsumed(Body, 2 * n)
            /\ StreamResolves(n, 0) => handlerOut.status = "ok"

\* C2's case: a header of 2 decoded to two typed handlers.
C2_Witness ==
    /\ handlerOut.status = "ok"
    /\ Header.value = 2
    /\ Len(handlerOut.value) = 2
    /\ handlerOut.value[2].exception.kind = "Ty"

\* C3: no decode of a byte input ends in a panic; each ends with a value or
\* an Error.
C3_NeverPanics ==
    /\ handlerOut.status # "panic"
    /\ handlersOut.status # "panic"
    /\ arrayOut.out.status # "panic"

RECURSIVE SumValues(_, _)
SumValues(stream, n) ==
    IF n = 0 THEN 0 ELSE stream[n].value + SumValues(stream, n - 1)

\* The deltas the slice holds.
Deltas == UlebStream(source)

\* C6: an item array of `len` items holds exactly len items, decoded in
\* stream order: the first item was handed 0 as `previous` and item i the id
\* of item i-1, so the ids are the running sums of the deltas; the bytes
\* consumed are the sum of the items' bytes, 0 for an empty array; and the
\* deltas 5, 0, 3 give the ids 5, 5, 8.
C6_DeltaIds ==
    arrayOut.out.status = "ok" =>
        LET inner == arrayOut.out.value
            len == arrayOut.len
        IN  /\ Len(inner) = len
            /\ len <= Len(Deltas)
            /\ \A i \in 1..len :
                 /\ inner[i].prev = (IF i = 1 THEN 0 ELSE Id(inner[i - 1]))
                 /\ Id(inner[i]) = SumValues(Deltas, i)
            /\ arrayOut.out.consumed = SumConsumed(Deltas, len)
            /\ len = 0 => inner = <<>> /\ arrayOut.out.consumed = 0
            /\ (source = <<5, 0, 3>> /\ len = 3) =>
                 <<Id(inner[1]), Id(inner[2]), Id(inner[3])>> = <<5, 5, 8>>

\* C6's case: the deltas 5, 0, 3 decoded as an array of three items.
C6_Witness ==
    /\ source = <<5, 0, 3>>
    /\ arrayOut.len = 3
    /\ arrayOut.out.status = "ok"
    /\ Id(arrayOut.out.value[3]) = 8

\* The count the list in `source` starts with.
Count == Uleb128Read(source)

\* C7: a decoded list holds exactly `count` records; record 0 is stored with
\* the byte length of the count varint and every later record with the
\* offset of the record before it plus the bytes that record takes, so the
\* offsets increase strictly; find(off) returns the record stored with off
\* and misses for every other off.
C7_RelativeOffsets ==
    handlersOut.status = "ok" =>
        LET inner == handlersOut.value
        IN  /\ Len(inner) = Count.value
            /\ \A i \in 1..Len(inner) :
                 LET record == EncodedCatchHandler(Suffix(source, inner[i][1]), TRUE)
                 IN  /\ inner[i][1] = (IF i = 1 THEN Count.consumed
                                       ELSE inner[i - 1][1]
                                            + EncodedCatchHandler(
                                                  Suffix(source, inner[i - 1][1]),
                                                  TRUE).consumed)
                     /\ record.status = "ok"
                     /\ record.value = inner[i][2]
                     /\ i > 1 => inner[i][1] > inner[i - 1][1]
            /\ handlersOut.consumed =
                 (IF inner = <<>> THEN Count.consumed
                  ELSE inner[Len(inner)][1]
                       + EncodedCatchHandler(Suffix(source, inner[Len(inner)][1]),
                                             TRUE).consumed)
            /\ findOut.called =>
                 LET stored == {i \in 1..Len(inner) : inner[i][1] = findOut.handler_offset}
                 IN  /\ findOut.result.found <=> stored # {}
                     /\ \A i \in stored : findOut.result.handlers = inner[i][2]

\* C7's case: a list of two records, and a find of the second one's offset.
C7_Witness ==
    /\ handlersOut.status = "ok"
    /\ Len(handlersOut.value) = 2
    /\ findOut.called
    /\ findOut.handler_offset = handlersOut.value[2][1]
    /\ findOut.result.found

\* A find of an offset inside a record, which no record is stored with.
C7_MissWitness ==
    /\ handlersOut.status = "ok"
    /\ Len(handlersOut.value) = 2
    /\ findOut.called
    /\ findOut.handler_offset = handlersOut.value[1][1] + 1
    /\ ~findOut.result.found

\* ---------------------------------------------------------------- properties of cache.rs

\* The keys a cache holds.
Present(c) == {c.entries[i].key : i \in 1..Len(c.entries)}

\* The value a cache holds for a key it holds.
Stored(c, key) == c.entries[CHOOSE i \in Position(c.entries, key) : TRUE].value

\* C4: a put of a key that is not held, into a cache holding as many keys as
\* its capacity, removes exactly the key whose last put or hit is the oldest,
\* and no other call removes a key; a get hits exactly the keys held (so a
\* removed key misses until it is put again), returns the value last put and
\* counts as an access; the keys held never exceed the capacity.
C4_LruEviction ==
    [][LET held == Present(cache)
           key == cacheOp'.key
       IN  /\ Cardinality(Present(cache')) <= cache'.cap
           /\ Len(cache'.entries) = Cardinality(Present(cache'))
           /\ cacheOp'.op = "put" =>
                /\ IF key \notin held /\ Cardinality(held) = cache.cap
                   THEN \E victim \in held :
                          /\ \A k \in held \ {victim} : lastAccess[victim] < lastAccess[k]
                          /\ Present(cache') = (held \ {victim}) \cup {key}
                   ELSE Present(cache') = held \cup {key}
                /\ Stored(cache', key) = cacheOp'.result.value
                /\ \A k \in Present(cache') \ {key} : Stored(cache', k) = Stored(cache, k)
           /\ cacheOp'.op = "get" =>
                /\ Present(cache') = held
                /\ cacheOp'.result.some <=> key \in held
                /\ cacheOp'.result.some => cacheOp'.result.value = Stored(cache, key)
                /\ \A k \in held : Stored(cache', k) = Stored(cache, k)
      ]_vars

\* C4's case, with capacity 2: key 1 was put first, key 2 after it, key 1
\* was then hit, and the put of a third key removed key 2: key 1 is still
\* held and the get of key 2 misses.
C4_Witness ==
    /\ cache.cap = 2
    /\ cacheOp = [op |-> "get", key |-> 2, result |-> None]
    /\ lastAccess[2] = 2
    /\ lastAccess[1] = 3
    /\ lastAccess[3] = 4
    /\ Present(cache) = {1, 3}

\* ---------------------------------------------------------------- properties of annotation.rs

\* What the buffer holds at an offset, read as an AnnotationItem from its
\* bytes alone.
ItemAt(off) == AnnotationItem(Suffix(dex.source, off))

\* What resolving an item's offset comes to, whatever the caches hold.
ItemResolution(off) ==
    IF off >= Len(dex.source) THEN Err("BadOffset") ELSE ItemAt(off)

\* How often the log has the byte-level decode of the item at `off`.
ItemDecodes(log, off) ==
    Cardinality({i \in 1..Len(log) :
                   log[i] = [what |-> "decode", kind |-> "AnnotationItem", off |-> off]})

\* The offsets of the items the log has resolutions of, in the order asked.
RECURSIVE ItemResolves(_)
ItemResolves(log) ==
    IF log = <<>> THEN <<>>
    ELSE IF Head(log).what = "resolve" /\ Head(log).kind = "AnnotationItem"
    THEN <<Head(log).off>> \o ItemResolves(Tail(log))
    ELSE ItemResolves(Tail(log))

\* The set of the buffer was decoded, and its table is [o1, o2, o1] with
\* o1 # o2 and an item at each.
SharedOffsetTable ==
    /\ out.op = "set"
    /\ Len(layout.table) = 3
    /\ layout.table[1] = layout.table[3]
    /\ layout.table[1] # layout.table[2]
    /\ \A i \in 1..3 : ItemResolution(layout.table[i]).status = "ok"

\* The decode gave the three items in table order, the first and the third
\* equal, every offset was asked of the resolver in table order, and the
\* bytes at o1 were decoded at most once.
SharedOffsetResult ==
    /\ out.res.status = "ok"
    /\ Len(out.res.value.annotations) = 3
    /\ \A i \in 1..3 : out.res.value.annotations[i] = ItemAt(layout.table[i]).value
    /\ out.res.value.annotations[1] = out.res.value.annotations[3]
    /\ ItemResolves(resolver.log) = layout.table
    /\ ItemDecodes(resolver.log, layout.table[1]) <= 1

VisibilityOf(code) ==
    CASE code = 0 -> "Build"
      [] code = 1 -> "Runtime"
      [] code = 2 -> "System"

\* C8: an AnnotationItem whose first byte is 0, 1 or 2 has the visibility
\* Build, Runtime or System and the annotation that follows the byte (or
\* ends with that annotation's failure); with any other first byte the
\* decode ends with InvalidId "Invalid visibility for annotation" and no
\* item, whatever follows the byte.
C8_VisibilityStrict ==
    (out.op = "annotation_item" /\ Len(source) >= 1) =>
        LET code == source[1]
            annotation == EncodedAnnotation(Suffix(source, 1))
        IN  IF code \in {0, 1, 2}
            THEN IF annotation.status = "ok"
                 THEN /\ out.res.status = "ok"
                      /\ out.res.value.visibility = VisibilityOf(code)
                      /\ out.res.value.annotation = annotation.value
                      /\ out.res.consumed = 1 + annotation.consumed
                 ELSE out.res = annotation
            ELSE /\ out.res.status = "err"
                 /\ out.res.error = "InvalidId"
                 /\ out.res.msg = "Invalid visibility for annotation"
                 /\ out.res.value = <<>>

\* C8's case: the first byte is 3 and the bytes after it are an annotation
\* whose own decode would not end Ok, and the decode ended with InvalidId.
C8_Witness ==
    /\ out.op = "annotation_item"
    /\ Len(source) > 1
    /\ source[1] = 3
    /\ EncodedAnnotation(Suffix(source, 1)).status \in {"err", "panic"}
    /\ EncodedAnnotation(Suffix(source, 1)).error # "InvalidId"
    /\ out.res.status = "err"
    /\ out.res.error = "InvalidId"

\* The kinds of the records the log has decoded in place, in the order decoded.
RECURSIVE InPlaceKinds(_)
InPlaceKinds(log) ==
    IF log = <<>> THEN <<>>
    ELSE IF Head(log).off = InPlace
    THEN <<Head(log).kind>> \o InPlaceKinds(Tail(log))
    ELSE InPlaceKinds(Tail(log))

RECURSIVE Repeat(_, _)
Repeat(x, n) == IF n = 0 THEN <<>> ELSE <<x>> \o Repeat(x, n - 1)

\* The entries a directory announces, by kind, in the order of its vectors.
ExpectedKinds ==
    Repeat("FieldAnnotations", layout.sizes[1])
    \o Repeat("MethodAnnotations", layout.sizes[2])
    \o Repeat("ParameterAnnotations", layout.sizes[3])

\* The first position of the set's table whose offset does not resolve, 0 if
\* every one does.
FirstFailing ==
    LET failing == {i \in 1..Len(layout.table) :
                      ItemResolution(layout.table[i]).status # "ok"}
    IN  IF failing = {} THEN 0 ELSE CHOOSE i \in failing : \A j \in failing : i <= j

\* The set of the buffer, read from its bytes alone when every offset of its
\* table resolves.
SetAt ==
    [annotations |-> [i \in 1..Len(layout.table) |-> ItemAt(layout.table[i]).value]]

\* The entries of the directory's vectors as its bytes give them.
FieldsAt == [i \in 1..layout.sizes[1] |-> [field_idx |-> i - 1, annotations |-> SetAt]]

MethodsAt == [i \in 1..layout.sizes[2] |-> [method_idx |-> i - 1, annotations |-> SetAt]]

ParametersAt ==
    [i \in 1..layout.sizes[3] |->
       [method_idx |-> i - 1,
        annotations |-> [annotation_set_list |-> <<SetAt, EmptySet>>]]]

\* C9: decoding a directory whose class_annotations_off is 0 asks for and
\* decodes nothing at offset 0; when it ends Ok the class annotations are the
\* empty set and the vectors hold the announced numbers of entries, decoded
\* fields first, then methods, then parameters; it ends Ok whenever the
\* entries' own sets decode, and otherwise it is the first entry that failed.
C9_NoClassAnnotations ==
    (out.op = "directory" /\ layout.classOff = 0) =>
        /\ \A i \in 1..Len(resolver.log) : resolver.log[i].off # 0
        /\ (FirstFailing = 0 \/ ExpectedKinds = <<>>) => out.res.status = "ok"
        /\ out.res.status = "ok" =>
             /\ out.res.value.class_annotations = EmptySet
             /\ out.res.value.field_annotations = FieldsAt
             /\ out.res.value.method_annotations = MethodsAt
             /\ out.res.value.parameter_annotations = ParametersAt
             /\ InPlaceKinds(resolver.log) = ExpectedKinds
        /\ out.res.status # "ok" =>
             /\ ExpectedKinds # <<>>
             /\ InPlaceKinds(resolver.log) = <<Head(ExpectedKinds)>>

\* C9's case: class_annotations_off is 0, the directory announces a field, a
\* method and a parameter entry, and the decode ended Ok.
C9_Witness ==
    /\ out.op = "directory"
    /\ layout.classOff = 0
    /\ \A i \in 1..3 : layout.sizes[i] >= 1
    /\ out.res.status = "ok"
    /\ out.res.value.class_annotations = EmptySet
    /\ Len(out.res.value.parameter_annotations) >= 1

\* Every entry of a cache holds what its offset decodes to.
CachesCoherent(rc) ==
    /\ \A off \in Present(rc.items) : Stored(rc.items, off) = ItemAt(off).value
    /\ \A off \in Present(rc.sets) : Stored(rc.sets, off) = SetAt
    /\ \A off \in Present(rc.lists) :
         Stored(rc.lists, off) = [annotation_set_list |-> <<SetAt, EmptySet>>]

\* Every entry a cache held is still held, with the value it had.
EntriesKept(before, after) ==
    \A off \in Present(before) :
        off \in Present(after) /\ Stored(after, off) = Stored(before, off)

CachesKept(before, after) ==
    /\ EntriesKept(before.items, after.items)
    /\ EntriesKept(before.sets, after.sets)
    /\ EntriesKept(before.lists, after.lists)

\* The resolution of the class annotations or of an entry of the directory
\* has to fail: the class offset lies outside the buffer, or the set that
\* the class offset or an entry leads to has an offset that does not resolve.
ClassFails ==
    \/ layout.classOff = layout.badOff
    \/ layout.classOff = layout.setOff /\ FirstFailing # 0

DirectoryFails == ClassFails \/ (ExpectedKinds # <<>> /\ FirstFailing # 0)

\* The call `o` decoded the set, and position FirstFailing of its table
\* failed: the call ended with that position's error and no value, and the
\* offsets asked of the resolver are those up to that position.
SetAborted(o, rc) ==
    /\ o.res = ItemResolution(layout.table[FirstFailing])
    /\ o.res.value = <<>>
    /\ ItemResolves(rc.log) = SubSeq(layout.table, 1, FirstFailing)

\* The call `o` decoded the directory, and its class annotations or its
\* first entry failed: the call ended with that error and no value, and no
\* entry after the failed one was decoded.
DirectoryAborted(o, rc) ==
    /\ o.res.value = <<>>
    /\ IF layout.classOff = layout.badOff
       THEN /\ o.res = Err("BadOffset")
            /\ ItemResolves(rc.log) = <<>>
       ELSE /\ o.res = ItemResolution(layout.table[FirstFailing])
            /\ ItemResolves(rc.log) = SubSeq(layout.table, 1, FirstFailing)
    /\ InPlaceKinds(rc.log) = IF ClassFails THEN <<>> ELSE <<Head(ExpectedKinds)>>

\* What a call that decodes a set or a directory ends with, by what the
\* bytes of the buffer hold.
Propagates(o, rc) ==
    /\ (o.op = "set" \/ (o.op = "resolve_set" /\ o.off = layout.setOff)) =>
         IF FirstFailing # 0 THEN SetAborted(o, rc)
         ELSE o.res.status = "ok" /\ o.res.value = SetAt
    /\ o.op = "directory" =>
         IF DirectoryFails THEN DirectoryAborted(o, rc) ELSE o.res.status = "ok"

\* A call that resolves a valid item offset returns what the bytes at the
\* offset decode to, whatever was asked before.
ResolvesAlike(o) ==
    (o.op = "item" /\ ItemResolution(o.off).status = "ok") =>
        o.res = Ok(ItemAt(o.off).value, 0)

ElementAt(i) ==
    [name |-> [string_id |-> source[2 * i + 1]], value |-> source[2 * i + 2]]

\* The positions of the slice's elements whose name has the text `name`.
Named(name) == {i \in 1..source[2] : StringOf(source[2 * i + 1]) = name}

\* C11: find_element(name) on a decoded annotation returns the element at
\* the lowest position of the file whose name equals `name`, returns none
\* exactly when no element has the name, and leaves the annotation as it was.
C11_FindElement ==
    [][elementOut'.called =>
         /\ out' = out
         /\ out.res.value.elements = [i \in 1..source[2] |-> ElementAt(i)]
         /\ elementOut'.result.some <=> Named(elementOut'.name) # {}
         /\ elementOut'.result.some =>
              \E i \in Named(elementOut'.name) :
                 /\ \A j \in Named(elementOut'.name) : i <= j
                 /\ elementOut'.result.value = ElementAt(i)
      ]_vars

\* C11's case: the elements are [("a", 1), ("name", 2), ("name", 3)] and
\* find_element("name") returned the one with the value 2.
C11_Witness ==
    /\ source = <<0, 3, 0, 1, 1, 2, 1, 3>>
    /\ elementOut.called
    /\ elementOut.name = "name"
    /\ elementOut.result.some
    /\ elementOut.result.value.value = 2

=============================================================================
